---- MODULE Spec2Model ----
(***************************************************************************)
(* Invoice ("Rechnung") dashboard: the record client (livingAppsService),  *)
(* the data hook (useDashboardData), the dashboard view                    *)
(* (DashboardOverview), the table page (RechnungPage) and the dashboard's  *)
(* aggregation (stats, chartData, filtered).                               *)
(*                                                                         *)
(* Spec       the two views against the hosted-records service: requests   *)
(*            in flight, their responses and the handlers awaiting them.   *)
(* SpecStats  the KPI aggregation over bounded collections.                *)
(* SpecChart  the category chart aggregation over bounded collections.     *)
(***************************************************************************)
EXTENDS Integers, Sequences, FiniteSets, TLC

(***************************************************************************)
(* Bounds of the model.                                                    *)
(***************************************************************************)
\* list requests issued in one run
MaxLoads == 3
\* mutation requests (create, update, delete) issued in one run
MaxTasks == 2
\* length of the collections the aggregation is applied to
MaxLen == 3
\* significant bits of a number (an IEEE double has 53; the model scales the
\* format down, amounts are multiples of the smallest unit)
Prec == 3

(***************************************************************************)
(* JavaScript values.                                                      *)
(***************************************************************************)
\* an optional number: undefined, null or a non-negative amount
NumUndefined == 0 - 1
NumNull == 0 - 2
\* an optional boolean
BoolVals == {"undefined", "null", "false", "true"}

\* x ?? d on an optional number
Nullish(x) == x = NumUndefined \/ x = NumNull
Coalesce(x, d) == IF Nullish(x) THEN d ELSE x

\* truthiness of an optional boolean
Truthy(b) == b = "true"

RECURSIVE Pow2(_)
Pow2(n) == IF n = 0 THEN 1 ELSE 2 * Pow2(n - 1)

RECURSIVE BitLen(_)
BitLen(n) == IF n = 0 THEN 0 ELSE 1 + BitLen(n \div 2)

\* the nearest number with Prec significant bits, ties to the even mantissa
RoundToPrec(n) ==
    IF n < Pow2(Prec) THEN n
    ELSE LET u == Pow2(BitLen(n) - Prec)
             q == n \div u
             rem == n % u
             up == (2 * rem > u) \/ (2 * rem = u /\ q % 2 = 1)
         IN  (IF up THEN q + 1 ELSE q) * u

\* a + b on numbers: the exact sum, rounded to the format
NumAdd(a, b) == RoundToPrec(a + b)

\* the largest odd number the format holds exactly
BigAmount == Pow2(Prec) - 1

(***************************************************************************)
(* Category values: a bare key string, or a label/key pair object.         *)
(***************************************************************************)
KatUndefined == [type |-> "undefined", str |-> "", key |-> "", label |-> ""]
KatNull == [type |-> "null", str |-> "", key |-> "", label |-> ""]
KatString(s) == [type |-> "string", str |-> s, key |-> "", label |-> ""]
KatPair(k, l) == [type |-> "object", str |-> "", key |-> k, label |-> l]

KATEGORIE_KEYS == {"buero", "it_software", "reise", "marketing", "miete",
                   "versicherung", "sonstiges"}

KATEGORIE_LABELS(key) ==
    CASE key = "buero" -> "Bueromaterial"
      [] key = "it_software" -> "IT & Software"
      [] key = "reise" -> "Reisekosten"
      [] key = "marketing" -> "Marketing"
      [] key = "miete" -> "Miete & Nebenkosten"
      [] key = "versicherung" -> "Versicherungen"
      [] key = "sonstiges" -> "Sonstiges"
      [] OTHER -> key

getKategorie(r) ==
    LET k == r.fields.kategorie
    IN  IF k.type \in {"undefined", "null"} \/ (k.type = "string" /\ k.str = "")
        THEN "sonstiges"
        ELSE IF k.type = "object" THEN k.key
        ELSE k.str

(***************************************************************************)
(* KPI calculations (stats).                                               *)
(***************************************************************************)
Betrag(r) == Coalesce(r.fields.betrag, 0)

\* rechnung.reduce((s, r) => s + (r.fields.betrag ?? 0), s0)
RECURSIVE ReduceBetrag(_, _)
ReduceBetrag(rs, s) ==
    IF rs = <<>> THEN s
    ELSE ReduceBetrag(Tail(rs), NumAdd(s, Betrag(Head(rs))))

IsBezahlt(r) == Truthy(r.fields.bezahlt)

IsOffenLoose(r) == r.fields.bezahlt = "false"
IsOffen(r) == ~Truthy(r.fields.bezahlt)

Stats(rs) ==
    LET bezahlt == SelectSeq(rs, IsBezahlt)
        offen == SelectSeq(rs, IsOffen)
    IN  [total |-> ReduceBetrag(rs, 0),
         bezahltSum |-> ReduceBetrag(bezahlt, 0),
         offenSum |-> ReduceBetrag(offen, 0),
         bezahltCount |-> Len(bezahlt),
         offenCount |-> Len(offen)]

Filtered(rs, activeFilter) ==
    IF activeFilter = "offen" THEN SelectSeq(rs, IsOffen)
    ELSE IF activeFilter = "bezahlt" THEN SelectSeq(rs, IsBezahlt)
    ELSE rs

(***************************************************************************)
(* Category chart data (chartData).                                        *)
(***************************************************************************)
\* the map object as its entries in insertion order
MapHas(map, k) == \E i \in 1..Len(map) : map[i].key = k

MapAddOverwrite(map, k, v) ==
    IF MapHas(map, k)
    THEN [i \in 1..Len(map) |->
            IF map[i].key = k THEN [key |-> k, value |-> v] ELSE map[i]]
    ELSE Append(map, [key |-> k, value |-> v])

\* map[k] = (map[k] ?? 0) + v
MapAdd(map, k, v) ==
    IF MapHas(map, k)
    THEN [i \in 1..Len(map) |->
            IF map[i].key = k
            THEN [key |-> k, value |-> NumAdd(map[i].value, v)]
            ELSE map[i]]
    ELSE Append(map, [key |-> k, value |-> NumAdd(0, v)])

RECURSIVE CategoryMap(_, _)
CategoryMap(rs, map) ==
    IF rs = <<>> THEN map
    ELSE CategoryMap(Tail(rs), MapAdd(map, getKategorie(Head(rs)), Betrag(Head(rs))))

\* Array.prototype.sort with (a, b) => b.value - a.value: stable, descending
RECURSIVE InsertDesc(_, _)
InsertDesc(sorted, x) ==
    IF sorted = <<>> THEN <<x>>
    ELSE IF Head(sorted).value >= x.value
         THEN <<Head(sorted)>> \o InsertDesc(Tail(sorted), x)
         ELSE <<x>> \o sorted

RECURSIVE SortDesc(_, _)
SortDesc(xs, acc) ==
    IF xs = <<>> THEN acc ELSE SortDesc(Tail(xs), InsertDesc(acc, Head(xs)))

ChartEntries(map) ==
    [i \in 1..Len(map) |->
        [key |-> map[i].key, name |-> KATEGORIE_LABELS(map[i].key),
         value |-> map[i].value]]

ChartData(rs) == SortDesc(ChartEntries(CategoryMap(rs, <<>>)), <<>>)

(***************************************************************************)
(* The hosted-records service and the record client.                       *)
(***************************************************************************)
NoFields == [betrag |-> NumUndefined, bezahlt |-> "undefined", kategorie |-> KatUndefined]

\* the field sets a form submits; an undefined field is not transmitted
\* (JSON.stringify drops it)
FormFields ==
    {[betrag |-> 2, bezahlt |-> "undefined", kategorie |-> KatUndefined],
     [betrag |-> NumUndefined, bezahlt |-> "true", kategorie |-> KatUndefined]}

\* the records the service holds at mount: ids 1..n, in enumeration order
InitialRecord(i) ==
    [id |-> i, rec |-> [fields |-> [betrag |-> 2, bezahlt |-> "undefined",
                                    kategorie |-> KatUndefined]]]
InitialRemotes == {<<>>, <<InitialRecord(1)>>}

\* {...a, ...b}: the keys of both, b's value where both have the key
Spread(a, b) ==
    [k \in DOMAIN a \cup DOMAIN b |-> IF k \in DOMAIN b THEN b[k] ELSE a[k]]

\* Object.entries(data).map(([id, rec]) => ({ record_id: id, ...rec }))
getRechnung(data) ==
    [i \in 1..Len(data) |-> Spread([record_id |-> data[i].id], data[i].rec)]

RecordIds(rs) == {rs[i].record_id : i \in 1..Len(rs)}
RemoteIds(data) == {data[i].id : i \in 1..Len(data)}

\* the value of field k in a fields object that has no k
UndefinedOf(k) ==
    CASE k = "betrag" -> NumUndefined
      [] k = "bezahlt" -> "undefined"
      [] k = "kategorie" -> KatUndefined

\* the keys of a fields object whose value is not undefined
Supplied(fields) == {k \in DOMAIN fields : fields[k] # UndefinedOf(k)}

\* JSON.stringify({ fields }): the request body has the keys whose value is
\* not undefined (a null is transmitted)
JsonBodySendsAll(fields) == fields
JsonBody(fields) == [k \in Supplied(fields) |-> fields[k]]

\* the service on a request body: the transmitted fields replace the stored
\* ones, the others stay
MergeFields(old, body) ==
    LET Pick(k) == IF k \in DOMAIN body THEN body[k] ELSE old[k]
    IN  [betrag |-> Pick("betrag"), bezahlt |-> Pick("bezahlt"),
         kategorie |-> Pick("kategorie")]

RemoteCreate(data, id, body) ==
    Append(data, [id |-> id, rec |-> [fields |-> MergeFields(NoFields, body)]])
RemoteUpdate(data, id, body) ==
    [i \in 1..Len(data) |->
        IF data[i].id = id
        THEN [id |-> id, rec |-> [fields |-> MergeFields(data[i].rec.fields, body)]]
        ELSE data[i]]
RemoteDelete(data, id) == SelectSeq(data, LAMBDA e : e.id # id)

(***************************************************************************)
(* extractRecordId: a string is the sequence of its characters.            *)
(***************************************************************************)
StrNull == [type |-> "null", chars |-> <<>>]
StrUndefined == [type |-> "undefined", chars |-> <<>>]
Str(chars) == [type |-> "string", chars |-> chars]

\* the length of the run the pattern asks for: {24}
IdLen == 24

\* the class [a-f0-9]
HexLower == {"0", "1", "2", "3", "4", "5", "6", "7", "8", "9",
             "a", "b", "c", "d", "e", "f"}
\* the characters the class [a-f0-9] matches under the i flag
HexAnyCase == HexLower \cup {"A", "B", "C", "D", "E", "F"}

\* the start positions at which [class]{IdLen}$ matches
MatchStarts(chars, class) ==
    {i \in 1..Len(chars) :
        /\ i + IdLen - 1 = Len(chars)
        /\ \A j \in i..(i + IdLen - 1) : chars[j] \in class}

\* url.match(/([a-f0-9]{24})$/) without the i flag
MatchCaseSensitive(chars) == MatchStarts(chars, HexLower)
\* url.match(/([a-f0-9]{24})$/i): the leftmost match
Match(chars) == MatchStarts(chars, HexAnyCase)

extractRecordId(url) ==
    IF url.type # "string" \/ url.chars = <<>> THEN StrNull
    ELSE LET m == Match(url.chars)
         IN  IF m = {} THEN StrNull
             ELSE LET i == CHOOSE i \in m : \A k \in m : i <= k
                  IN  Str(SubSeq(url.chars, i, i + IdLen - 1))

(***************************************************************************)
(* State.                                                                  *)
(***************************************************************************)
VARIABLES
    view,            \* the mounted route: "dashboard" or "page"
    mounted,         \* the mount effect has run
    remote,          \* the service's id -> record mapping, in enumeration order
    nextId,          \* the id the service assigns next
    loads,           \* list requests in flight
    nLoads,          \* list requests issued so far
    tasks,           \* submit/delete handlers, by task id (finished ones kept)
    lastSettled,     \* the list request that settled last
    lastData,        \* the response of the last list request that succeeded
    rechnung, loading, error,                   \* useDashboardData
    dialogOpen, editRecord, deleteTarget,       \* DashboardOverview
    records, pageLoading, pageDialogOpen,       \* RechnungPage
    editingRecord, pageDeleteTarget,
    aggIn, stats, chartData, activeFilter, filtered,  \* the dashboard's memos
    scanLoading, scanError, prefillValues,      \* DashboardOverview photo scan
    scanOutcome,     \* how the last handlePhotoScan ended: "idle" before the
                     \* first, "pending" while it awaits
    url, extracted   \* an argument of extractRecordId and what it returned

hookVars == <<rechnung, loading, error>>
dashVars == <<dialogOpen, editRecord, deleteTarget>>
pageVars == <<records, pageLoading, pageDialogOpen, editingRecord, pageDeleteTarget>>
svcVars == <<remote, nextId>>
reqVars == <<loads, nLoads, lastSettled, lastData>>
aggVars == <<aggIn, stats, chartData, activeFilter, filtered>>
scanVars == <<scanLoading, scanError, prefillValues, scanOutcome>>
extractVars == <<url, extracted>>
vars == <<view, mounted, svcVars, reqVars, tasks, hookVars, dashVars, pageVars, aggVars,
          scanVars, extractVars>>

InitAggIdle ==
    /\ aggIn = <<>>
    /\ stats = Stats(<<>>)
    /\ chartData = ChartData(<<>>)
    /\ activeFilter = "all"
    /\ filtered = <<>>

InitViews ==
    /\ mounted = FALSE
    /\ loads = {}
    /\ nLoads = 0
    /\ tasks = <<>>
    /\ lastSettled = [id |-> 0, ok |-> FALSE, cause |-> 0, late |-> FALSE, maxOk |-> 0]
    /\ lastData = <<>>
    /\ rechnung = <<>> /\ loading = TRUE /\ error = "null"
    /\ dialogOpen = FALSE /\ editRecord = <<>> /\ deleteTarget = <<>>
    /\ records = <<>> /\ pageLoading = TRUE /\ pageDialogOpen = FALSE
    /\ editingRecord = <<>> /\ pageDeleteTarget = <<>>
    /\ scanLoading = FALSE /\ scanError = "null" /\ prefillValues = <<>>
    /\ scanOutcome = "idle"

\* extractRecordId has not been called
InitExtractIdle == url = StrUndefined /\ extracted = <<>>

Init ==
    /\ view \in {"dashboard", "page"}
    /\ remote \in InitialRemotes
    /\ nextId = Len(remote) + 1
    /\ InitViews
    /\ InitAggIdle
    /\ InitExtractIdle

\* handlers that will issue a list request once their mutation succeeds
AwaitingRefresh ==
    {t \in 1..Len(tasks) :
        tasks[t].pc = "mutation" /\ (view = "dashboard" \/ tasks[t].kind # "delete")}
LoadBudget == nLoads + Cardinality(AwaitingRefresh) < MaxLoads
TaskBudget == Len(tasks) < MaxTasks

NewLoad(cause) == [id |-> nLoads + 1, st |-> "sent", data |-> <<>>, cause |-> cause]
IssueList(cause) ==
    /\ nLoads' = nLoads + 1
    /\ loads' = loads \cup {NewLoad(cause)}

\* list request l settles with st: "ok" with the response the service gave,
\* "fail" when the request fails (a transport error, a non-success status)
ListSettles(l, st) ==
    /\ l \in loads
    /\ \/ st = "ok" /\ l.st = "ok"
       \/ st = "fail" /\ l.st = "sent"

RecordSettled(l, st) ==
    /\ lastSettled' = [id |-> l.id, ok |-> st = "ok", cause |-> l.cause,
                       late |-> l.id < lastSettled.maxOk,
                       maxOk |-> IF st = "ok" /\ l.id > lastSettled.maxOk
                                 THEN l.id ELSE lastSettled.maxOk]
    /\ lastData' = IF st = "ok" THEN l.data ELSE lastData

\* the mutation request of handler t settles with st: "ok" once the service has
\* applied it, "fail" when the request fails
MutationSettles(t, st) ==
    /\ t \in 1..Len(tasks) /\ tasks[t].pc = "mutation"
    /\ \/ st = "ok" /\ tasks[t].st = "ok"
       \/ st = "fail" /\ tasks[t].st = "sent"

NewTask(kind, target, fields) ==
    [kind |-> kind, target |-> target, fields |-> fields, st |-> "sent",
     pc |-> "mutation"]

\* handler t goes on to pc; its request body is no longer needed
SetTask(t, st, pc) ==
    tasks' = [tasks EXCEPT ![t].st = st, ![t].pc = pc, ![t].fields = NoFields]

(***************************************************************************)
(* The service answers the requests in flight, in any order.               *)
(***************************************************************************)
Server_List(l) ==
    /\ l \in loads /\ l.st = "sent"
    /\ loads' = (loads \ {l}) \cup {[l EXCEPT !.st = "ok", !.data = remote]}
    /\ UNCHANGED <<view, mounted, svcVars, nLoads, lastSettled, lastData, tasks,
                   hookVars, dashVars, pageVars, aggVars, scanVars, extractVars>>

Server_Mutate(t) ==
    /\ t \in 1..Len(tasks) /\ tasks[t].pc = "mutation" /\ tasks[t].st = "sent"
    /\ \/ /\ tasks[t].kind = "create"
          /\ remote' = RemoteCreate(remote, nextId, JsonBody(tasks[t].fields))
          /\ nextId' = nextId + 1
       \/ /\ tasks[t].kind = "update" /\ tasks[t].target \in RemoteIds(remote)
          /\ remote' = RemoteUpdate(remote, tasks[t].target,
                                       JsonBody(tasks[t].fields))
          /\ nextId' = nextId
       \/ /\ tasks[t].kind = "delete" /\ tasks[t].target \in RemoteIds(remote)
          /\ remote' = RemoteDelete(remote, tasks[t].target)
          /\ nextId' = nextId
    /\ tasks' = [tasks EXCEPT ![t].st = "ok"]
    /\ UNCHANGED <<view, mounted, reqVars, hookVars, dashVars, pageVars, aggVars, scanVars, extractVars>>

(***************************************************************************)
(* useDashboardData                                                        *)
(***************************************************************************)
\* fetchAll up to its await: setError(null), then the list request
fetchAll(cause) ==
    /\ error' = "null"
    /\ loading' = loading
    /\ rechnung' = rechnung
    /\ IssueList(cause)

\* fetchAll after its await: try / catch / finally
fetchAllSettleDropsData(l, st) ==
    /\ IF st = "ok"
       THEN rechnung' = getRechnung(l.data) /\ error' = error
       ELSE rechnung' = <<>> /\ error' = "Error"
    /\ loading' = FALSE
fetchAllSettleKeepsNewest(l, st) ==
    /\ IF st = "ok"
       THEN /\ rechnung' = IF l.id > lastSettled.maxOk THEN getRechnung(l.data)
                           ELSE rechnung
            /\ error' = error
       ELSE rechnung' = rechnung /\ error' = "Error"
    /\ loading' = FALSE
fetchAllSettle(l, st) ==
    /\ IF st = "ok"
       THEN rechnung' = getRechnung(l.data) /\ error' = error
       ELSE rechnung' = rechnung /\ error' = "Error"
    /\ loading' = FALSE

\* useEffect(() => { fetchAll(); }, [fetchAll])
Dashboard_Mount ==
    /\ view = "dashboard" /\ ~mounted
    /\ mounted' = TRUE
    /\ fetchAll(0)
    /\ UNCHANGED <<view, svcVars, lastSettled, lastData, tasks, dashVars, pageVars,
                   aggVars, scanVars, extractVars>>

\* the list request of a fetchAll settles
Dashboard_fetchAllSettle(l, st) ==
    /\ view = "dashboard" /\ ListSettles(l, st)
    /\ fetchAllSettle(l, st)
    /\ loads' = loads \ {l}
    /\ RecordSettled(l, st)
    /\ UNCHANGED <<view, mounted, svcVars, nLoads, tasks, dashVars, pageVars, aggVars, scanVars, extractVars>>

(***************************************************************************)
(* DashboardOverview                                                       *)
(***************************************************************************)
\* the dashboard body is rendered: neither the skeleton nor the error view
DashboardShown == view = "dashboard" /\ mounted /\ ~loading /\ error = "null"
\* no dialog is open (the dialogs are modal: the rows and buttons behind an
\* open dialog cannot be clicked)
DashboardIdle == DashboardShown /\ ~dialogOpen /\ deleteTarget = <<>>

Shown(rs) == {rs[i] : i \in 1..Len(rs)}

\* "Neue Rechnung"
Dashboard_NewClick ==
    /\ DashboardIdle
    /\ editRecord' = <<>> /\ dialogOpen' = TRUE
    /\ prefillValues' = <<>>
    /\ UNCHANGED <<view, mounted, svcVars, reqVars, tasks, hookVars, deleteTarget,
                   pageVars, aggVars, scanLoading, scanError, scanOutcome,
                   extractVars>>

\* the pencil of a row
Dashboard_EditClick(r) ==
    /\ DashboardIdle /\ r \in Shown(rechnung)
    /\ editRecord' = <<r>> /\ dialogOpen' = TRUE
    /\ prefillValues' = <<>>
    /\ UNCHANGED <<view, mounted, svcVars, reqVars, tasks, hookVars, deleteTarget,
                   pageVars, aggVars, scanLoading, scanError, scanOutcome,
                   extractVars>>

\* the trash can of a row
Dashboard_DeleteClick(r) ==
    /\ DashboardIdle /\ r \in Shown(rechnung)
    /\ deleteTarget' = <<r>>
    /\ UNCHANGED <<view, mounted, svcVars, reqVars, tasks, hookVars, dialogOpen,
                   editRecord, pageVars, aggVars, scanVars, extractVars>>

\* RechnungDialog onClose
Dashboard_DialogClose ==
    /\ DashboardShown /\ dialogOpen
    /\ dialogOpen' = FALSE /\ editRecord' = <<>>
    /\ prefillValues' = <<>>
    /\ UNCHANGED <<view, mounted, svcVars, reqVars, tasks, hookVars, deleteTarget,
                   pageVars, aggVars, scanLoading, scanError, scanOutcome,
                   extractVars>>

\* ConfirmDialog onClose
Dashboard_ConfirmClose ==
    /\ DashboardShown /\ deleteTarget # <<>>
    /\ deleteTarget' = <<>>
    /\ UNCHANGED <<view, mounted, svcVars, reqVars, tasks, hookVars, dialogOpen,
                   editRecord, pageVars, aggVars, scanVars, extractVars>>

\* RechnungDialog onSubmit, up to its await: the update or the create request
Dashboard_onSubmitCreates(fields) ==
    /\ DashboardShown /\ dialogOpen
    /\ TaskBudget /\ LoadBudget
    /\ tasks' = Append(tasks, NewTask("create", 0, fields))
    /\ UNCHANGED <<view, mounted, svcVars, reqVars, hookVars, dashVars, pageVars,
                   aggVars, scanVars, extractVars>>
Dashboard_onSubmit(fields) ==
    /\ DashboardShown /\ dialogOpen
    /\ TaskBudget /\ LoadBudget
    /\ tasks' = Append(tasks,
            IF editRecord # <<>>
            THEN NewTask("update", editRecord[1].record_id, fields)
            ELSE NewTask("create", 0, fields))
    /\ UNCHANGED <<view, mounted, svcVars, reqVars, hookVars, dashVars, pageVars,
                   aggVars, scanVars, extractVars>>

\* onSubmit after its await: fetchAll() when the mutation succeeded, else the
\* rejection leaves the handler
Dashboard_onSubmitNoAwait(t, st) ==
    /\ view = "dashboard" /\ t \in 1..Len(tasks)
    /\ tasks[t].pc = "mutation" /\ tasks[t].kind # "delete" /\ st = "ok"
    /\ fetchAll(t) /\ SetTask(t, tasks[t].st, "done")
    /\ UNCHANGED <<view, mounted, svcVars, lastSettled, lastData, dashVars, pageVars,
                   aggVars, scanVars, extractVars>>
Dashboard_onSubmitSettle(t, st) ==
    /\ view = "dashboard" /\ MutationSettles(t, st) /\ tasks[t].kind # "delete"
    /\ IF st = "ok"
       THEN fetchAll(t) /\ SetTask(t, "ok", "done")
       ELSE SetTask(t, "fail", "thrown") /\ UNCHANGED <<loads, nLoads, hookVars>>
    /\ UNCHANGED <<view, mounted, svcVars, lastSettled, lastData, dashVars, pageVars,
                   aggVars, scanVars, extractVars>>

\* handleDelete, up to its await: the delete request
Dashboard_handleDelete ==
    /\ DashboardShown /\ deleteTarget # <<>>
    /\ TaskBudget /\ LoadBudget
    /\ tasks' = Append(tasks, NewTask("delete", deleteTarget[1].record_id, NoFields))
    /\ UNCHANGED <<view, mounted, svcVars, reqVars, hookVars, dashVars, pageVars,
                   aggVars, scanVars, extractVars>>

\* handleDelete after its await: setDeleteTarget(null); fetchAll()
Dashboard_handleDeleteCatches(t, st) ==
    /\ view = "dashboard" /\ MutationSettles(t, st) /\ tasks[t].kind = "delete"
    /\ IF st = "ok"
       THEN /\ deleteTarget' = <<>>
            /\ fetchAll(t)
            /\ SetTask(t, "ok", "done")
       ELSE /\ SetTask(t, "fail", "done")
            /\ error' = "Error" /\ deleteTarget' = <<>>
            /\ UNCHANGED <<loads, nLoads, rechnung, loading>>
    /\ UNCHANGED <<view, mounted, svcVars, lastSettled, lastData, dialogOpen,
                   editRecord, pageVars, aggVars, scanVars, extractVars>>
Dashboard_handleDeleteSettle(t, st) ==
    /\ view = "dashboard" /\ MutationSettles(t, st) /\ tasks[t].kind = "delete"
    /\ IF st = "ok"
       THEN /\ deleteTarget' = <<>>
            /\ fetchAll(t)
            /\ SetTask(t, "ok", "done")
       ELSE /\ SetTask(t, "fail", "thrown")
            /\ UNCHANGED <<loads, nLoads, hookVars, deleteTarget>>
    /\ UNCHANGED <<view, mounted, svcVars, lastSettled, lastData, dialogOpen,
                   editRecord, pageVars, aggVars, scanVars, extractVars>>

\* DashboardError onRetry
Dashboard_onRetry ==
    /\ view = "dashboard" /\ mounted /\ ~loading /\ error # "null"
    /\ LoadBudget
    /\ fetchAll(0)
    /\ UNCHANGED <<view, mounted, svcVars, lastSettled, lastData, tasks, dashVars,
                   pageVars, aggVars, scanVars, extractVars>>

(***************************************************************************)
(* DashboardOverview: photo scan                                           *)
(***************************************************************************)
\* what the two awaits of handlePhotoScan can end with: a rejection, a value
\* that is no object, or an object whose properties may be null
Extracted(betrag, kategorie) ==
    [kind |-> "object", betrag |-> betrag, kategorie |-> kategorie]
ExtractedThrown == [kind |-> "thrown", betrag |-> NumNull, kategorie |-> KatNull]
ExtractedNull == [kind |-> "null", betrag |-> NumNull, kategorie |-> KatNull]

\* extracted.kategorie && Object.keys(KATEGORIE_LABELS).includes(...) ? ... : 'sonstiges'
katKey(result) ==
    IF result.kategorie.type = "string" /\ result.kategorie.str # ""
       /\ result.kategorie.str \in KATEGORIE_KEYS
    THEN result.kategorie.str
    ELSE "sonstiges"

\* the object handed to setPrefillValues
Prefill(result) ==
    [betrag |-> Coalesce(result.betrag, NumUndefined),
     bezahlt |-> "undefined",
     kategorie |-> KatString(katKey(result))]

\* defaultValues={editRecord ? editRecord.fields : prefillValues}
DefaultValues == IF editRecord # <<>> THEN <<editRecord[1].fields>> ELSE prefillValues

\* handlePhotoScan up to its first await (the scan button is disabled while
\* scanLoading)
Scan_Start ==
    /\ DashboardIdle /\ ~scanLoading
    /\ scanLoading' = TRUE /\ scanError' = "null"
    /\ scanOutcome' = "pending"
    /\ UNCHANGED <<view, mounted, svcVars, reqVars, tasks, hookVars, dashVars,
                   pageVars, aggVars, prefillValues, extractVars>>

\* handlePhotoScan after its awaits: try / catch / finally
Scan_SettleKeepsLoading(result) ==
    /\ view = "dashboard" /\ scanOutcome = "pending"
    /\ IF result.kind = "object"
       THEN /\ prefillValues' = <<Prefill(result)>>
            /\ editRecord' = <<>> /\ dialogOpen' = TRUE
            /\ scanError' = scanError
            /\ scanOutcome' = "fulfilled"
            /\ scanLoading' = FALSE
       ELSE /\ scanError' = "Foto konnte nicht ausgelesen werden"
            /\ scanOutcome' = "rejected"
            /\ scanLoading' = scanLoading
            /\ UNCHANGED <<prefillValues, editRecord, dialogOpen>>
    /\ UNCHANGED <<view, mounted, svcVars, reqVars, tasks, hookVars, deleteTarget,
                   pageVars, aggVars, extractVars>>
Scan_SettleWritesRecord(result) ==
    /\ view = "dashboard" /\ scanOutcome = "pending"
    /\ IF result.kind = "object"
       THEN /\ prefillValues' = <<Prefill(result)>>
            /\ editRecord' = <<>> /\ dialogOpen' = TRUE
            /\ scanError' = scanError
            /\ scanOutcome' = "fulfilled"
            /\ tasks' = IF TaskBudget /\ LoadBudget
                        THEN Append(tasks, NewTask("create", 0, Prefill(result)))
                        ELSE tasks
       ELSE /\ scanError' = "Foto konnte nicht ausgelesen werden"
            /\ scanOutcome' = "rejected"
            /\ UNCHANGED <<prefillValues, editRecord, dialogOpen, tasks>>
    /\ scanLoading' = FALSE
    /\ UNCHANGED <<view, mounted, svcVars, reqVars, hookVars, deleteTarget,
                   pageVars, aggVars, extractVars>>
Scan_Settle(result) ==
    /\ view = "dashboard" /\ scanOutcome = "pending"
    /\ IF result.kind = "object"
       THEN /\ prefillValues' = <<Prefill(result)>>
            /\ editRecord' = <<>> /\ dialogOpen' = TRUE
            /\ scanError' = scanError
            /\ scanOutcome' = "fulfilled"
       ELSE /\ scanError' = "Foto konnte nicht ausgelesen werden"
            /\ scanOutcome' = "rejected"
            /\ UNCHANGED <<prefillValues, editRecord, dialogOpen>>
    /\ scanLoading' = FALSE
    /\ UNCHANGED <<view, mounted, svcVars, reqVars, tasks, hookVars, deleteTarget,
                   pageVars, aggVars, extractVars>>

(***************************************************************************)
(* RechnungPage                                                            *)
(***************************************************************************)
\* the page body is rendered, not the spinner
PageShown == view = "page" /\ mounted /\ ~pageLoading
PageFormOpen == pageDialogOpen \/ editingRecord # <<>>
PageIdle == PageShown /\ ~PageFormOpen /\ pageDeleteTarget = <<>>

\* loadData up to its await: setLoading(true), then the list request
loadData(cause) ==
    /\ pageLoading' = TRUE
    /\ records' = records
    /\ IssueList(cause)

\* loadData after its await: try / finally (a failure is rethrown)
loadDataSettle(l, st) ==
    /\ records' = IF st = "ok" THEN getRechnung(l.data) ELSE records
    /\ pageLoading' = FALSE

\* prev.filter(r => r.record_id !== deleteTarget.record_id)
FilterOut(prev, id) == SelectSeq(prev, LAMBDA r : r.record_id # id)

\* useEffect(() => { loadData(); }, [])
Page_Mount ==
    /\ view = "page" /\ ~mounted
    /\ mounted' = TRUE
    /\ loadData(0)
    /\ UNCHANGED <<view, svcVars, lastSettled, lastData, tasks, hookVars, dashVars,
                   pageDialogOpen, editingRecord, pageDeleteTarget, aggVars, scanVars, extractVars>>

\* the list request of loadData settles; the handler awaiting loadData goes on:
\* handleCreate closes the dialog, handleUpdate clears editingRecord, and a
\* rejection leaves the handler
Page_loadDataSettle(l, st) ==
    /\ view = "page" /\ ListSettles(l, st)
    /\ loadDataSettle(l, st)
    /\ loads' = loads \ {l}
    /\ RecordSettled(l, st)
    /\ IF l.cause = 0
       THEN UNCHANGED <<tasks, pageDialogOpen, editingRecord>>
       ELSE IF st # "ok"
       THEN SetTask(l.cause, "ok", "thrown") /\ UNCHANGED <<pageDialogOpen, editingRecord>>
       ELSE /\ SetTask(l.cause, "ok", "done")
            /\ IF tasks[l.cause].kind = "create"
               THEN pageDialogOpen' = FALSE /\ editingRecord' = editingRecord
               ELSE editingRecord' = <<>> /\ pageDialogOpen' = pageDialogOpen
    /\ UNCHANGED <<view, mounted, svcVars, nLoads, hookVars, dashVars,
                   pageDeleteTarget, aggVars, scanVars, extractVars>>

\* "Add"
Page_AddClick ==
    /\ PageIdle
    /\ pageDialogOpen' = TRUE
    /\ UNCHANGED <<view, mounted, svcVars, reqVars, tasks, hookVars, dashVars, records,
                   pageLoading, editingRecord, pageDeleteTarget, aggVars, scanVars, extractVars>>

\* the pencil of a row
Page_EditClick(r) ==
    /\ PageIdle /\ r \in Shown(records)
    /\ editingRecord' = <<r>>
    /\ UNCHANGED <<view, mounted, svcVars, reqVars, tasks, hookVars, dashVars, records,
                   pageLoading, pageDialogOpen, pageDeleteTarget, aggVars, scanVars, extractVars>>

\* the trash can of a row
Page_DeleteClick(r) ==
    /\ PageIdle /\ r \in Shown(records)
    /\ pageDeleteTarget' = <<r>>
    /\ UNCHANGED <<view, mounted, svcVars, reqVars, tasks, hookVars, dashVars, records,
                   pageLoading, pageDialogOpen, editingRecord, aggVars, scanVars, extractVars>>

\* RechnungDialog onClose
Page_DialogClose ==
    /\ PageShown /\ PageFormOpen
    /\ pageDialogOpen' = FALSE /\ editingRecord' = <<>>
    /\ UNCHANGED <<view, mounted, svcVars, reqVars, tasks, hookVars, dashVars, records,
                   pageLoading, pageDeleteTarget, aggVars, scanVars, extractVars>>

\* ConfirmDialog onClose
Page_ConfirmClose ==
    /\ PageShown /\ pageDeleteTarget # <<>>
    /\ pageDeleteTarget' = <<>>
    /\ UNCHANGED <<view, mounted, svcVars, reqVars, tasks, hookVars, dashVars, records,
                   pageLoading, pageDialogOpen, editingRecord, aggVars, scanVars, extractVars>>

\* RechnungDialog onSubmit = editingRecord ? handleUpdate : handleCreate, up to
\* the await of the mutation
Page_onSubmit(fields) ==
    /\ PageShown /\ PageFormOpen
    /\ TaskBudget /\ LoadBudget
    /\ tasks' = Append(tasks,
            IF editingRecord # <<>>
            THEN NewTask("update", editingRecord[1].record_id, fields)
            ELSE NewTask("create", 0, fields))
    /\ UNCHANGED <<view, mounted, svcVars, reqVars, hookVars, dashVars, pageVars,
                   aggVars, scanVars, extractVars>>

\* handleCreate / handleUpdate after the mutation: await loadData()
Page_onSubmitSettle(t, st) ==
    /\ view = "page" /\ MutationSettles(t, st) /\ tasks[t].kind # "delete"
    /\ IF st = "ok"
       THEN loadData(t) /\ SetTask(t, "ok", "refresh")
       ELSE SetTask(t, "fail", "thrown") /\ UNCHANGED <<loads, nLoads, records, pageLoading>>
    /\ UNCHANGED <<view, mounted, svcVars, lastSettled, lastData, hookVars, dashVars,
                   pageDialogOpen, editingRecord, pageDeleteTarget, aggVars, scanVars, extractVars>>

\* handleDelete, up to its await: the delete request
Page_handleDelete ==
    /\ PageShown /\ pageDeleteTarget # <<>>
    /\ TaskBudget
    /\ tasks' = Append(tasks, NewTask("delete", pageDeleteTarget[1].record_id, NoFields))
    /\ UNCHANGED <<view, mounted, svcVars, reqVars, hookVars, dashVars, pageVars,
                   aggVars, scanVars, extractVars>>

\* handleDelete after its await: the local filter, setDeleteTarget(null)
Page_handleDeleteSettle(t, st) ==
    /\ view = "page" /\ MutationSettles(t, st) /\ tasks[t].kind = "delete"
    /\ IF st = "ok"
       THEN /\ records' = FilterOut(records, tasks[t].target)
            /\ pageDeleteTarget' = <<>>
            /\ SetTask(t, "ok", "done")
       ELSE /\ SetTask(t, "fail", "thrown")
            /\ UNCHANGED <<records, pageDeleteTarget>>
    /\ UNCHANGED <<view, mounted, svcVars, reqVars, hookVars, dashVars, pageLoading,
                   pageDialogOpen, editingRecord, aggVars, scanVars, extractVars>>

(***************************************************************************)
(* The two views against the service.                                      *)
(***************************************************************************)
Outcomes == {"ok", "fail"}

Next ==
    \/ \E l \in loads : Server_List(l)
    \/ \E t \in 1..Len(tasks) : Server_Mutate(t)
    \/ Dashboard_Mount
    \/ \E l \in loads : \E st \in Outcomes : Dashboard_fetchAllSettle(l, st)
    \/ Dashboard_NewClick
    \/ \E r \in Shown(rechnung) : Dashboard_EditClick(r)
    \/ \E r \in Shown(rechnung) : Dashboard_DeleteClick(r)
    \/ Dashboard_DialogClose
    \/ Dashboard_ConfirmClose
    \/ \E f \in FormFields : Dashboard_onSubmit(f)
    \/ \E t \in 1..Len(tasks) : \E st \in Outcomes : Dashboard_onSubmitSettle(t, st)
    \/ Dashboard_handleDelete
    \/ \E t \in 1..Len(tasks) : \E st \in Outcomes : Dashboard_handleDeleteSettle(t, st)
    \/ Dashboard_onRetry
    \/ Page_Mount
    \/ \E l \in loads : \E st \in Outcomes : Page_loadDataSettle(l, st)
    \/ Page_AddClick
    \/ \E r \in Shown(records) : Page_EditClick(r)
    \/ \E r \in Shown(records) : Page_DeleteClick(r)
    \/ Page_DialogClose
    \/ Page_ConfirmClose
    \/ \E f \in FormFields : Page_onSubmit(f)
    \/ \E t \in 1..Len(tasks) : \E st \in Outcomes : Page_onSubmitSettle(t, st)
    \/ Page_handleDelete
    \/ \E t \in 1..Len(tasks) : \E st \in Outcomes : Page_handleDeleteSettle(t, st)

Spec == Init /\ [][Next]_vars

(***************************************************************************)
(* The aggregation over bounded collections: the collection grows by one    *)
(* record at a time and the memos are recomputed, as on every render.       *)
(***************************************************************************)
AmountVals == {NumUndefined, NumNull, 2, BigAmount}

\* the records the KPI cards are checked on (stats does not read kategorie)
StatsFields ==
    {[betrag |-> b, bezahlt |-> z, kategorie |-> KatUndefined] :
        b \in AmountVals, z \in BoolVals}

\* the records the chart is checked on (chartData does not read bezahlt)
KatVals == {KatUndefined, KatNull, KatString("reise"), KatString("buero"),
            KatPair("buero", "Bueromaterial")}
ChartFields ==
    {[betrag |-> b, bezahlt |-> "undefined", kategorie |-> k] :
        b \in AmountVals, k \in KatVals}

InitAgg ==
    /\ view = "dashboard"
    /\ remote = <<>>
    /\ nextId = 1
    /\ InitViews
    /\ InitAggIdle
    /\ InitExtractIdle

\* the collection the hook returns has one more record
Agg_setRechnung(fields) ==
    /\ Len(aggIn) < MaxLen
    /\ aggIn' = Append(aggIn, [record_id |-> Len(aggIn) + 1, fields |-> fields])
    /\ stats' = Stats(aggIn')
    /\ chartData' = ChartData(aggIn')
    /\ filtered' = Filtered(aggIn', activeFilter)
    /\ activeFilter' = activeFilter
    /\ UNCHANGED <<view, mounted, svcVars, reqVars, tasks, hookVars, dashVars, pageVars,
                   scanVars, extractVars>>

\* the filter buttons: setActiveFilter(f)
Agg_setActiveFilter(f) ==
    /\ f # activeFilter
    /\ activeFilter' = f
    /\ filtered' = Filtered(aggIn, f)
    /\ UNCHANGED <<aggIn, stats, chartData>>
    /\ UNCHANGED <<view, mounted, svcVars, reqVars, tasks, hookVars, dashVars, pageVars,
                   scanVars, extractVars>>

FilterModes == {"all", "offen", "bezahlt"}

NextStats ==
    \/ \E f \in StatsFields : Agg_setRechnung(f)
    \/ \E f \in FilterModes : Agg_setActiveFilter(f)

NextChart ==
    \/ \E f \in ChartFields : Agg_setRechnung(f)
    \/ \E f \in FilterModes : Agg_setActiveFilter(f)

SpecStats == InitAgg /\ [][NextStats]_vars
SpecChart == InitAgg /\ [][NextChart]_vars

(***************************************************************************)
(* The dashboard when every request succeeds.                              *)
(***************************************************************************)
InitDashboard ==
    /\ view = "dashboard"
    /\ remote \in InitialRemotes
    /\ nextId = Len(remote) + 1
    /\ InitViews
    /\ InitAggIdle
    /\ InitExtractIdle

NextDashboardOk ==
    \/ \E l \in loads : Server_List(l)
    \/ \E t \in 1..Len(tasks) : Server_Mutate(t)
    \/ Dashboard_Mount
    \/ \E l \in loads : Dashboard_fetchAllSettle(l, "ok")
    \/ Dashboard_NewClick
    \/ \E r \in Shown(rechnung) : Dashboard_EditClick(r)
    \/ \E r \in Shown(rechnung) : Dashboard_DeleteClick(r)
    \/ Dashboard_DialogClose
    \/ Dashboard_ConfirmClose
    \/ \E f \in FormFields : Dashboard_onSubmit(f)
    \/ \E t \in 1..Len(tasks) : Dashboard_onSubmitSettle(t, "ok")
    \/ Dashboard_handleDelete
    \/ \E t \in 1..Len(tasks) : Dashboard_handleDeleteSettle(t, "ok")

SpecDashboardOk == InitDashboard /\ [][NextDashboardOk]_vars

(***************************************************************************)
(* The dashboard with the photo scan.                                      *)
(***************************************************************************)
ScanResults ==
    {ExtractedThrown, ExtractedNull,
     Extracted(2, KatString("reise")), Extracted(NumNull, KatString("hotel")),
     Extracted(NumNull, KatNull)}

NextScan ==
    \/ \E l \in loads : Server_List(l)
    \/ \E t \in 1..Len(tasks) : Server_Mutate(t)
    \/ Dashboard_Mount
    \/ \E l \in loads : Dashboard_fetchAllSettle(l, "ok")
    \/ Dashboard_NewClick
    \/ \E r \in Shown(rechnung) : Dashboard_EditClick(r)
    \/ Dashboard_DialogClose
    \/ \E f \in FormFields : Dashboard_onSubmit(f)
    \/ \E t \in 1..Len(tasks) : Dashboard_onSubmitSettle(t, "ok")
    \/ Scan_Start
    \/ \E x \in ScanResults : Scan_Settle(x)

SpecScan == InitDashboard /\ [][NextScan]_vars

(***************************************************************************)
(* The list call on the mappings the service can answer with.              *)
(***************************************************************************)
\* what the service holds under one key: a record object, which may or may
\* not have a record_id property of its own
ListRecs ==
    {[fields |-> NoFields]}
      \cup {[fields |-> NoFields, record_id |-> k] : k \in 1..2}

ListEntries == {[id |-> i, rec |-> r] : i \in 1..MaxLen, r \in ListRecs}

\* the mappings: no key twice, in any enumeration order
ListRemotes ==
    {m \in UNION {[1..n -> ListEntries] : n \in 0..MaxLen} :
        \A i, j \in 1..Len(m) : m[i].id = m[j].id => i = j}

InitList ==
    /\ view \in {"dashboard", "page"}
    /\ remote \in ListRemotes
    /\ nextId = MaxLen + 1
    /\ InitViews
    /\ InitAggIdle
    /\ InitExtractIdle

NextList ==
    \/ \E l \in loads : Server_List(l)
    \/ Dashboard_Mount
    \/ \E l \in loads : \E st \in Outcomes : Dashboard_fetchAllSettle(l, st)
    \/ Dashboard_onRetry
    \/ Page_Mount
    \/ \E l \in loads : \E st \in Outcomes : Page_loadDataSettle(l, st)

SpecList == InitList /\ [][NextList]_vars

(***************************************************************************)
(* extractRecordId on the arguments it is checked on.                      *)
(***************************************************************************)
\* the longest run of characters after the prefix
MaxRun == 25

\* what precedes the run: nothing, or the end of a path
UrlPrefixes == {<<>>, <<"s", "/">>}
\* characters a run may hold in one place: hexadecimal in either case, not
\* hexadecimal in either case, a separator
OddChars == {"F", "9", "g", "G", "/"}

\* n times "a", with c at place i (no place when i = 0)
Run(n, i, c) == [j \in 1..n |-> IF j = i THEN c ELSE "a"]

UrlInputs ==
    {StrNull, StrUndefined}
      \cup {Str(p \o Run(n, i, c)) :
              p \in UrlPrefixes,
              n \in 0..MaxRun, i \in 0..MaxRun, c \in OddChars}

InitExtract ==
    /\ view = "dashboard"
    /\ remote = <<>>
    /\ nextId = 1
    /\ InitViews
    /\ InitAggIdle
    /\ url \in UrlInputs /\ extracted = <<>>

\* extractRecordId(url)
Extract_call ==
    /\ extracted = <<>>
    /\ extracted' = <<extractRecordId(url)>>
    /\ UNCHANGED <<view, mounted, svcVars, reqVars, tasks, hookVars, dashVars, pageVars,
                   aggVars, scanVars, url>>

NextExtract == Extract_call

SpecExtract == InitExtract /\ [][NextExtract]_vars

(***************************************************************************)
(* Properties of the data hook and of the two views (Spec).                *)
(***************************************************************************)
\* the step settles list request l
SettleStep(l) == l \in loads /\ lastSettled' # lastSettled /\ lastSettled'.id = l.id

\* the step is the one in which handler t hears that its mutation succeeded
MutationOkStep(t) ==
    /\ t \in 1..Len(tasks) /\ tasks[t].pc = "mutation"
    /\ tasks'[t].pc \in {"done", "refresh"}

Collection == IF view = "page" THEN records ELSE rechnung

\* C1: when the list request of a fetchAll fails, the error is stored, loading
\* is cleared, and the collection is left exactly as the last successful load
\* stored it (empty if none has succeeded yet).
C1_FailedLoadKeepsCollection ==
    [][\A l \in loads :
         (view = "dashboard" /\ SettleStep(l) /\ ~lastSettled'.ok)
            => /\ error' = "Error"
               /\ loading' = FALSE
               /\ rechnung' = rechnung
               /\ rechnung' = getRechnung(lastData')]_vars

\* a load has failed after an earlier one had stored a non-empty collection
C1_Witness ==
    /\ view = "dashboard" /\ lastSettled.id # 0 /\ ~lastSettled.ok
    /\ error = "Error" /\ ~loading
    /\ rechnung # <<>> /\ rechnung = getRechnung(lastData)

\* C2 (as claimed): every fetchAll sets loading before its list request
\* resolves, so loading is true whenever a list request of the hook is in flight.
C2_LoadingWhileInFlight == (view = "dashboard" /\ loads # {}) => loading

\* C3: overlapping loads are neither cancelled nor coalesced (each fetchAll adds
\* a request of its own, and a settling request removes only itself), and a load
\* that succeeds stores its response, whether or not a load issued after it has
\* already resolved: the last response to resolve wins.
C3_LastResolvedWins ==
    [][/\ \A l \in loads :
            (view = "dashboard" /\ SettleStep(l))
               => /\ loads' = loads \ {l}
                  /\ lastSettled'.ok => rechnung' = getRechnung(l.data)
       /\ (view = "dashboard" /\ nLoads' # nLoads)
            => /\ loads \subseteq loads'
               /\ Cardinality(loads') = Cardinality(loads) + 1]_vars

\* a load resolved successfully after a load issued later had already done so
C3_Witness ==
    /\ view = "dashboard" /\ lastSettled.ok /\ lastSettled.late
    /\ rechnung = getRechnung(lastData)

\* C4: the list request of the refresh that follows a submit (create or update)
\* is issued only once the mutation request has completed successfully.
C4_RefreshAfterMutation ==
    [][\A l \in loads' \ loads :
         (l.st = "sent" /\ l.cause # 0 /\ tasks[l.cause].kind # "delete")
            => /\ tasks[l.cause].pc = "mutation"
               /\ tasks[l.cause].st = "ok"]_vars

\* the refresh of a successful update is in flight
C4_Witness ==
    \E l \in loads :
        /\ l.cause # 0 /\ l.st = "sent"
        /\ tasks[l.cause].kind = "update" /\ tasks[l.cause].st = "ok"

\* C5: once the delete action of record r has finished successfully,
\* r is absent from the remote collection and from the in-memory collection of
\* the view, in the table page and in the dashboard alike.
C5_DeletedAbsentAtOnce ==
    [][\A t \in 1..Len(tasks) :
         (MutationOkStep(t) /\ tasks[t].kind = "delete")
            => /\ tasks[t].target \notin RemoteIds(remote')
               /\ tasks[t].target \notin RecordIds(Collection')]_vars

\* C6: a successful delete filters the record out of the in-memory
\* collection and issues no list request; a successful create or update issues
\* one list request.
C6_DeleteFiltersLocally ==
    [][\A t \in 1..Len(tasks) :
         MutationOkStep(t)
            => IF tasks[t].kind = "delete"
               THEN /\ nLoads' = nLoads /\ loads' = loads
                    /\ Collection' = FilterOut(Collection, tasks[t].target)
               ELSE nLoads' = nLoads + 1]_vars

\* C7: the paid and the unpaid records partition the collection:
\* paidCount + unpaidCount = N and paidSum + unpaidSum = totalAmount (the sum
\* of the two taken as the program adds numbers).
C7_PaidUnpaidPartition ==
    /\ stats.bezahltCount + stats.offenCount = Len(aggIn)
    /\ NumAdd(stats.bezahltSum, stats.offenSum) = stats.total

\* the values of the entries, added from the first to the last as the program
\* adds numbers
RECURSIVE SumValues(_, _)
SumValues(entries, s) ==
    IF entries = <<>> THEN s
    ELSE SumValues(Tail(entries), NumAdd(s, Head(entries).value))

\* C8: the values of categoryTotals (chartData) add up to totalAmount.
C8_CategoryTotalsSumToTotal == SumValues(chartData, 0) = stats.total

\* the category key the claim resolves a record to
ResolvedKey(r) ==
    LET k == r.fields.kategorie
    IN  CASE k.type = "object" -> k.key
          [] k.type = "string" -> k.str
          [] OTHER -> "sonstiges"

WithKey(rs, key) == SelectSeq(rs, LAMBDA r : ResolvedKey(r) = key)

\* C9: categoryTotals has exactly one entry per distinct resolved category key
\* of the collection ('sonstiges' for an absent category, the pair's key for a
\* label/key pair, the literal value otherwise), its value the sum of the
\* amounts of the records with that key, and the entries are ordered by
\* non-increasing total.
C9_CategoryTotals ==
    /\ {chartData[i].key : i \in 1..Len(chartData)}
          = {ResolvedKey(aggIn[i]) : i \in 1..Len(aggIn)}
    /\ \A i, j \in 1..Len(chartData) :
          chartData[i].key = chartData[j].key => i = j
    /\ \A i \in 1..Len(chartData) :
          chartData[i].value = ReduceBetrag(WithKey(aggIn, chartData[i].key), 0)
    /\ \A i, j \in 1..Len(chartData) :
          i < j => chartData[i].value >= chartData[j].value

\* a pair and a bare string with the same key share one entry, below the
\* larger entry of a record with no category
C9_Witness ==
    /\ Len(aggIn) = 3 /\ Len(chartData) = 2
    /\ \E i, j, k \in 1..Len(aggIn) :
        /\ aggIn[i].fields.kategorie = KatPair("buero", "Bueromaterial")
        /\ aggIn[j].fields.kategorie = KatString("buero")
        /\ aggIn[k].fields.kategorie = KatUndefined
        /\ aggIn[i].fields.betrag = 2 /\ aggIn[j].fields.betrag = 2
        /\ aggIn[k].fields.betrag = BigAmount
    /\ chartData[1].key = "sonstiges" /\ chartData[1].value = BigAmount
    /\ chartData[2].key = "buero" /\ chartData[2].value = 4

FlagIn(rs, flags) == SelectSeq(rs, LAMBDA r : r.fields.bezahlt \in flags)
HasAmount(r) == ~Nullish(r.fields.betrag)

\* C10: a record counts as paid only when its paid flag is true; a record whose
\* flag is absent, false or null counts toward unpaidCount and its amount
\* toward unpaidSum; a record with no amount adds 0 to every sum and is still
\* counted in its partition (and listed under its filter).
C10_PaidOnlyWhenTrue ==
    LET paid == FlagIn(aggIn, {"true"})
        unpaid == FlagIn(aggIn, {"undefined", "false", "null"})
    IN  /\ stats.bezahltCount = Len(paid)
        /\ stats.offenCount = Len(unpaid)
        /\ stats.bezahltSum = ReduceBetrag(SelectSeq(paid, HasAmount), 0)
        /\ stats.offenSum = ReduceBetrag(SelectSeq(unpaid, HasAmount), 0)
        /\ stats.total = ReduceBetrag(SelectSeq(aggIn, HasAmount), 0)
        /\ filtered = CASE activeFilter = "offen" -> unpaid
                        [] activeFilter = "bezahlt" -> paid
                        [] OTHER -> aggIn

\* a record with neither amount nor flag and a record flagged null are both
\* counted unpaid, next to a paid record
C10_Witness ==
    /\ Len(aggIn) = 3
    /\ \E i, j, k \in 1..Len(aggIn) :
        /\ aggIn[i].fields.betrag = NumUndefined
        /\ aggIn[i].fields.bezahlt = "undefined"
        /\ aggIn[j].fields.betrag = 2 /\ aggIn[j].fields.bezahlt = "null"
        /\ aggIn[k].fields.betrag = BigAmount /\ aggIn[k].fields.bezahlt = "true"
    /\ stats.offenCount = 2 /\ stats.offenSum = 2
    /\ stats.bezahltCount = 1 /\ stats.bezahltSum = BigAmount
    /\ activeFilter = "offen" /\ Len(filtered) = 2

\* the hexadecimal digits, upper or lower case
HexDigits == {"0", "1", "2", "3", "4", "5", "6", "7", "8", "9",
              "a", "b", "c", "d", "e", "f", "A", "B", "C", "D", "E", "F"}
EndsInHexRun(u) ==
    /\ u.type = "string" /\ Len(u.chars) >= IdLen
    /\ \A j \in (Len(u.chars) - IdLen + 1)..Len(u.chars) : u.chars[j] \in HexDigits

\* C11: extractRecordId(url) returns the last 24 characters of url when url
\* ends in 24 hexadecimal digits of either case, and null for every other
\* argument (null, undefined, the empty string, a shorter trailing run, a run
\* with a character that is not a hexadecimal digit).
C11_ExtractRecordId ==
    extracted # <<>>
       => IF EndsInHexRun(url)
          THEN extracted[1] = Str(SubSeq(url.chars, Len(url.chars) - IdLen + 1,
                                         Len(url.chars)))
          ELSE extracted[1] = StrNull

\* an identifier with an upper-case digit was extracted from behind a path
C11_Witness ==
    /\ extracted # <<>> /\ extracted[1].type = "string"
    /\ Len(url.chars) = IdLen + 2 /\ url.chars[2] = "/"
    /\ \E j \in 1..IdLen : extracted[1].chars[j] = "F"

\* C12: after a successful list call the collection has exactly one entry per
\* key of the mapping the service answered with, in the mapping's enumeration
\* order, and each entry's record_id is the key of its record, whatever the
\* record holds.
C12_ListTagsWithKey ==
    (lastSettled.ok /\ loads = {})
       => /\ Len(Collection) = Len(lastData)
          /\ \A i \in 1..Len(Collection) : Collection[i].record_id = lastData[i].id

\* C18: no two records of the in-memory collection have the same identifier.
C18_UniqueIdentifiers ==
    \A i, j \in 1..Len(Collection) :
        Collection[i].record_id = Collection[j].record_id => i = j

\* the service applies the request of handler t
ServerAppliesStep(t) ==
    /\ t \in 1..Len(tasks) /\ tasks[t].pc = "mutation"
    /\ tasks[t].st = "sent" /\ tasks'[t].st = "ok"

FieldNames == {"betrag", "bezahlt", "kategorie"}
\* what a fetch returns for record id of the mapping data
Fetched(data, id) ==
    LET rs == getRechnung(data)
    IN  {rs[i] : i \in {j \in 1..Len(rs) : rs[j].record_id = id}}

\* C13: update(id, partialFields) transmits only the supplied fields, and once
\* the service has applied it every field of record id that partialFields does
\* not supply has, on a fetch, the value it had before (so do the other
\* records).
C13_PartialUpdate ==
    [][\A t \in 1..Len(tasks) :
         (ServerAppliesStep(t) /\ tasks[t].kind = "update")
            => /\ DOMAIN JsonBody(tasks[t].fields)
                    = {k \in FieldNames : tasks[t].fields[k] # UndefinedOf(k)}
               /\ \A old \in Fetched(remote, tasks[t].target) :
                    \E new \in Fetched(remote', tasks[t].target) :
                       \A k \in FieldNames :
                          IF tasks[t].fields[k] = UndefinedOf(k)
                          THEN new.fields[k] = old.fields[k]
                          ELSE new.fields[k] = tasks[t].fields[k]
               /\ \A id \in RemoteIds(remote) \ {tasks[t].target} :
                    Fetched(remote', id) = Fetched(remote, id)]_vars

\* an update of the paid flag alone has been applied to a record with an
\* amount, and a refresh has fetched it with both
C13_Witness ==
    \E t \in 1..Len(tasks) : \E i \in 1..Len(Collection) :
        /\ tasks[t].kind = "update" /\ tasks[t].st = "ok"
        /\ Collection[i].record_id = tasks[t].target
        /\ Collection[i].fields.betrag = 2
        /\ Collection[i].fields.bezahlt = "true"

\* the mutation request of handler t has failed and the handler is left
MutationFailStep(t) ==
    /\ t \in 1..Len(tasks) /\ tasks[t].pc = "mutation"
    /\ tasks'[t].st = "fail"

\* C14: a failed list call of the Data Hook is caught and becomes the hook's
\* error state; a failed create, update or delete is not caught: it leaves the
\* handler that issued it by a throw, does not set the hook's error state,
\* leaves the in-memory collection as it is and is followed by no refresh.
C14_MutationErrorsPropagate ==
    [][/\ \A l \in loads :
            (view = "dashboard" /\ SettleStep(l) /\ ~lastSettled'.ok)
               => error' = "Error" /\ tasks' = tasks
       /\ \A t \in 1..Len(tasks) :
            MutationFailStep(t)
               => /\ tasks'[t].pc = "thrown"
                  /\ error' = error /\ Collection' = Collection
                  /\ loads' = loads /\ nLoads' = nLoads
       /\ \A l \in loads' : l.cause # 0 => tasks'[l.cause].st # "fail"]_vars

\* a delete has failed in the dashboard: no error state, the record still
\* listed, the confirmation still open, nothing in flight
C14_Witness ==
    /\ view = "dashboard" /\ error = "null" /\ loads = {} /\ deleteTarget # <<>>
    /\ \E t \in 1..Len(tasks) :
        /\ tasks[t].kind = "delete" /\ tasks[t].st = "fail" /\ tasks[t].pc = "thrown"
        /\ tasks[t].target \in RecordIds(rechnung)

\* a form submit: a handler other than a delete starts
SubmitStep ==
    /\ Len(tasks') > Len(tasks)
    /\ tasks'[Len(tasks')].kind # "delete"

\* the record the open form edits, if any
Editing == IF view = "page" THEN editingRecord ELSE editRecord

\* C17: a form submit issues exactly one mutation request: an update of the
\* record being edited if and only if an existing record is being edited at
\* the time of the submit, and a create otherwise; an update adds no record to
\* the remote collection, a create adds exactly one.
C17_SubmitIssuesOneMutation ==
    [][/\ SubmitStep
            => /\ tasks' = Append(tasks, tasks'[Len(tasks')])
               /\ tasks'[Len(tasks')].st = "sent"
               /\ IF Editing # <<>>
                  THEN /\ tasks'[Len(tasks')].kind = "update"
                       /\ tasks'[Len(tasks')].target = Editing[1].record_id
                  ELSE tasks'[Len(tasks')].kind = "create"
       /\ \A t \in 1..Len(tasks) :
            ServerAppliesStep(t)
               => /\ \A u \in 1..Len(tasks) : u # t => tasks'[u] = tasks[u]
                  /\ tasks[t].kind = "update" => RemoteIds(remote') = RemoteIds(remote)
                  /\ tasks[t].kind = "create"
                        => /\ Len(remote') = Len(remote) + 1
                           /\ RemoteIds(remote) \subseteq RemoteIds(remote')]_vars

\* the dashboard's edit form has been submitted: the service has applied one
\* update and holds as many records as before
C17_Witness ==
    /\ view = "dashboard" /\ Len(tasks) = 1 /\ Len(remote) = 1
    /\ tasks[1].kind = "update" /\ tasks[1].st = "ok"
    /\ tasks[1].target \in RemoteIds(remote)
    /\ remote[1].rec.fields.bezahlt = "true"

\* C19: in the dashboard, after successful creates, updates and deletes, each
\* followed by its refresh, the in-memory collection equals the remote
\* collection whenever no request is in flight.
C19_CollectionEqualsRemote ==
    (/\ view = "dashboard" /\ mounted /\ loads = {}
     /\ \A t \in 1..Len(tasks) : tasks[t].pc = "done")
       => rechnung = getRechnung(remote)

\* C20: whenever a load of the Data Hook resolves successfully, the hook's
\* error state is null in the resulting state.
C20_SuccessClearsError ==
    (view = "dashboard" /\ lastSettled.id # 0 /\ lastSettled.ok) => error = "null"

\* a photo scan finishes
ScanSettleStep == scanOutcome = "pending" /\ scanOutcome' # "pending"
ScanFailStep == scanOutcome = "pending" /\ scanOutcome' = "rejected"
ScanStartStep == scanOutcome # "pending" /\ scanOutcome' = "pending"

\* C15: an extraction result is only used as prefill of the create form: the
\* step that completes an extraction issues no request and changes nothing on
\* the service, the remote collection changes only when the service applies the
\* request of a form submit, a submit made while prefill values are set is a
\* create, and while an existing record is being edited the form's defaults
\* are that record's fields, never the prefill values.
C15_ExtractionOnlyPrefills ==
    [][/\ ScanSettleStep => UNCHANGED <<tasks, svcVars, loads, nLoads>>
       /\ remote' # remote
            => \E t \in 1..Len(tasks) :
                    ServerAppliesStep(t) /\ tasks[t].kind \in {"create", "update"}
       /\ (SubmitStep /\ prefillValues # <<>>)
            => tasks'[Len(tasks')].kind = "create"
       /\ editRecord' # <<>>
            => /\ DefaultValues' = <<editRecord'[1].fields>>
               /\ prefillValues' = <<>>]_vars

\* the create form is open with the values of a finished extraction as its
\* defaults, and nothing has been sent
C15_Witness ==
    /\ scanOutcome = "fulfilled" /\ dialogOpen /\ editRecord = <<>>
    /\ prefillValues # <<>> /\ DefaultValues = prefillValues
    /\ tasks = <<>>

\* C16: a failed photo scan sets the scan error, leaves the form dialog, the
\* edited record and the prefill values as they were and clears scan-loading;
\* scan-loading is false after every finished scan and true during one;
\* starting a scan clears the scan error.
C16_ScanFailureConfined ==
    [][/\ ScanFailStep
            => /\ scanError' # "null"
               /\ UNCHANGED <<dialogOpen, editRecord, prefillValues>>
       /\ ScanSettleStep => ~scanLoading'
       /\ ScanStartStep => (scanLoading' /\ scanError' = "null")
       /\ scanLoading' <=> scanOutcome' = "pending"]_vars

\* a scan has failed: its error is shown and no dialog is open
C16_Witness ==
    /\ scanOutcome = "rejected" /\ scanError # "null"
    /\ ~scanLoading /\ ~dialogOpen /\ prefillValues = <<>>

====
